---- MODULE Spec2Model ----
(***************************************************************************)
(* Wallet risk-check backend: the POST /check pipeline (check_wallet), the *)
(* GET /recent-checks listing (get_recent_checks), the wallet_checks       *)
(* collection behind DbClient, and GET /subnet-stats (get_subnet_stats)    *)
(* with IPCClient::get_subnet_info.                                        *)
(*                                                                         *)
(* Strings that the code takes apart (addresses) are sequences of          *)
(* one-character strings; strings it only copies and compares (risk level, *)
(* reason, flag names, error messages) are TLA+ strings.  A Rust           *)
(* Option<T>, a BSON null and a JSON null are all written None == << >>,   *)
(* and Some(x) == << x >>.                                                 *)
(***************************************************************************)
EXTENDS Integers, Sequences, FiniteSets, TLC

VARIABLES
    store,        \* the wallet_checks collection, in insertion order
    now,          \* the last reading of Utc::now(), in milliseconds
    pc,           \* per request: where check_wallet stands
    address,      \* per request: the local address of check_wallet
    subnet_id,    \* per request: the local subnet_id of check_wallet
    wallet_check, \* per request: the WalletCheck built at line 40
    ai_response,  \* per request: the parsed AIPredictionResponse
    response,     \* per request: the HTTP response sent to the caller
    calls,        \* per request: the store and outbound calls issued so far
    created,      \* per request: the position of the record its insert stored
    target,       \* per request: the position of the record its update hit
    sent,         \* per request: the AIPredictionRequest it posted
    dbCall,       \* store level: the last call, its arguments and its result
    lastCreated,  \* store level: position of the record of the last insert
    lastPair,     \* store level: the last insert-then-update pair
    ipc_rpc_url,  \* the environment variable IPC_RPC_URL of the process
    statsLast,    \* the last GET /subnet-stats request and its response
    statsPrev     \* the GET /subnet-stats request before the last

vars == << store, now, pc, address, subnet_id, wallet_check, ai_response,
           response, calls, created, target, sent,
           dbCall, lastCreated, lastPair,
           ipc_rpc_url, statsLast, statsPrev >>

statsVars == << ipc_rpc_url, statsLast, statsPrev >>

dbVars == << dbCall, lastCreated, lastPair >>

ioVars == << sent >>

reqVars == << pc, address, subnet_id, wallet_check, ai_response, response,
              calls, created, target, ioVars >>

(***************************************************************************)
(* Bounds of the model.                                                    *)
(***************************************************************************)
NumReq == 2        \* concurrent POST /check requests
MaxTime == 1       \* clock ticks
MaxStore == 2      \* records inserted by the store-level specification

Reqs == 1 .. NumReq

None == << >>
Some(x) == << x >>

Min(a, b) == IF a <= b THEN a ELSE b

(***************************************************************************)
(* Address classifier (crate::ipc), from the grammar of the specification: *)
(* an optional "subnetId/" prefix, then "0x" and 40 hexadecimal digits.    *)
(***************************************************************************)
HexLen == 40

HexChars == { "0", "1", "2", "3", "4", "5", "6", "7", "8", "9",
              "a", "b", "c", "d", "e", "f", "A", "B", "C", "D", "E", "F" }

SepPositions(s) == { i \in 1 .. Len(s) : s[i] = "/" }

is_eth_address(s) ==
    /\ Len(s) = HexLen + 2
    /\ s[1] = "0"
    /\ s[2] = "x"
    /\ \A i \in 3 .. Len(s) : s[i] \in HexChars

extract_eth_address(s) ==
    IF SepPositions(s) = {}
    THEN IF is_eth_address(s) THEN Some(s) ELSE None
    ELSE LET k == CHOOSE i \in SepPositions(s) : TRUE
             rest == SubSeq(s, k + 1, Len(s))
         IN  IF Cardinality(SepPositions(s)) = 1 /\ k > 1 /\ is_eth_address(rest)
             THEN Some(rest)
             ELSE None

is_valid_ipc_address(s) == extract_eth_address(s) # None

extract_subnet_id(s) ==
    IF is_valid_ipc_address(s) /\ SepPositions(s) # {}
    THEN LET k == CHOOSE i \in SepPositions(s) : TRUE
         IN  Some(SubSeq(s, 1, k - 1))
    ELSE None

(***************************************************************************)
(* Inputs.                                                                 *)
(***************************************************************************)
Bare(c) == << "0", "x" >> \o [i \in 1 .. HexLen |-> c]

AddrPlain == Bare("a")
AddrSubnet == << "s", "4", "2", "/" >> \o Bare("a")
AddrShort == << "0", "x", "a", "b", "c" >>

Addresses == { AddrPlain, AddrSubnet, AddrShort }
ValidAddresses == { a \in Addresses : is_valid_ipc_address(a) }

\* AIPredictionResponse values the scoring service returns to the requests.
Verdicts ==
    { [risk_level |-> "Low", reason |-> "clean history", ipc_specific_flags |-> None],
      [risk_level |-> "High", reason |-> "mixer", ipc_specific_flags |-> Some(<< "bridge" >>)] }

\* The verdicts handed to update_wallet_check directly: also an empty flag list.
StoreVerdicts ==
    Verdicts \cup
    { [risk_level |-> "Medium", reason |-> "", ipc_specific_flags |-> Some(<< >>)] }

\* The three ways the prediction step fails, by the message check_wallet answers.
PredictFaults ==
    { "Failed to connect to AI service", "AI service error",
      "Failed to parse AI response" }

(***************************************************************************)
(* models.rs                                                               *)
(***************************************************************************)
WalletCheck_new(a, sub, t) ==
    [id |-> None, address |-> a, subnet_id |-> sub, timestamp |-> t,
     risk_level |-> None, reason |-> None, ipc_specific_flags |-> None]

\* The doc! of into_document: six keys, an absent Option stored as null; no _id.
into_document(wc) ==
    [address |-> wc.address, subnet_id |-> wc.subnet_id,
     timestamp |-> wc.timestamp, risk_level |-> wc.risk_level,
     reason |-> wc.reason, ipc_specific_flags |-> wc.ipc_specific_flags]

(***************************************************************************)
(* db.rs                                                                   *)
(***************************************************************************)
\* insert_wallet_check answering Ok(()) without the insert_one.
insert_dropped(s, wc) == s

insert_wallet_check(s, wc) == Append(s, into_document(wc))

Filter(s, a) == { i \in 1 .. Len(s) : s[i].address = a }

\* UpdateCandidates with the sort ascending: the oldest record of the address.
UpdateCandidates_Oldest(s, a) ==
    { i \in Filter(s, a) : \A j \in Filter(s, a) : s[i].timestamp <= s[j].timestamp }

\* find_one_and_update with sort {timestamp: -1}: the first document of the
\* filter in descending timestamp order; among equal timestamps the server
\* may pick any.
UpdateCandidates(s, a) ==
    { i \in Filter(s, a) : \A j \in Filter(s, a) : s[j].timestamp <= s[i].timestamp }

\* update_doc that also sets the timestamp.
update_doc_touch(risk_level, reason, flags) ==
    IF flags # None
    THEN [risk_level |-> Some(risk_level), reason |-> Some(reason),
          ipc_specific_flags |-> flags, timestamp |-> 0]
    ELSE [risk_level |-> Some(risk_level), reason |-> Some(reason), timestamp |-> 0]

\* The $set document: ipc_specific_flags is set only when the Option is Some.
update_doc(risk_level, reason, flags) ==
    IF flags # None
    THEN [risk_level |-> Some(risk_level), reason |-> Some(reason),
          ipc_specific_flags |-> flags]
    ELSE [risk_level |-> Some(risk_level), reason |-> Some(reason)]

ApplySet(d, upd) ==
    [f \in DOMAIN d |-> IF f \in DOMAIN upd THEN upd[f] ELSE d[f]]

\* The store after update_wallet_check hit the record at position i.
UpdateAt(s, i, risk_level, reason, flags) ==
    [s EXCEPT ![i] = ApplySet(s[i], update_doc(risk_level, reason, flags))]

\* update_wallet_check with upsert: no match inserts a document of the $set.
update_wallet_check_upsert(s, a, risk_level, reason, flags) ==
    IF UpdateCandidates(s, a) = {}
    THEN { [hit |-> 0,
            store |-> Append(s, [address |-> a, subnet_id |-> None, timestamp |-> 0,
                                 risk_level |-> Some(risk_level),
                                 reason |-> Some(reason),
                                 ipc_specific_flags |-> flags])] }
    ELSE { [hit |-> i, store |-> UpdateAt(s, i, risk_level, reason, flags)] :
           i \in UpdateCandidates(s, a) }

\* update_wallet_check with update_many: every record of the address is set.
update_wallet_check_many(s, a, risk_level, reason, flags) ==
    IF UpdateCandidates(s, a) = {}
    THEN { [hit |-> 0, store |-> s] }
    ELSE { [hit |-> i,
            store |-> [k \in 1 .. Len(s) |->
                         IF s[k].address = a
                         THEN ApplySet(s[k], update_doc(risk_level, reason, flags))
                         ELSE s[k]]] :
           i \in UpdateCandidates(s, a) }

\* The outcomes of update_wallet_check when it returns Ok(()): the position of
\* the document find_one_and_update matched (0 for no match, which is still
\* Ok: the returned Option is dropped) and the store it leaves.
update_wallet_check(s, a, risk_level, reason, flags) ==
    IF UpdateCandidates(s, a) = {}
    THEN { [hit |-> 0, store |-> s] }
    ELSE { [hit |-> i, store |-> UpdateAt(s, i, risk_level, reason, flags)] :
           i \in UpdateCandidates(s, a) }

RECURSIVE SortedOrders(_, _)
\* The orders of the positions S of s that sort {timestamp: -1} allows.
SortedOrders(s, S) ==
    IF S = {}
    THEN { << >> }
    ELSE UNION { { << i >> \o rest : rest \in SortedOrders(s, S \ {i}) } :
                 i \in { m \in S : \A j \in S : s[j].timestamp <= s[m].timestamp } }

\* FindOptions.limit as the driver and server treat it: 0 is no limit, a
\* negative limit returns its absolute value of documents in one batch.
LimitCount(limit, n) ==
    IF limit = 0 THEN n
    ELSE IF limit < 0 THEN Min(0 - limit, n)
    ELSE Min(limit, n)

\* The document vectors DbClient::get_recent_checks may return.
DbClient_get_recent_checks(s, limit) ==
    { [k \in 1 .. LimitCount(limit, Len(s)) |-> s[ord[k]]] :
      ord \in SortedOrders(s, 1 .. Len(s)) }

(***************************************************************************)
(* routes: GET /recent-checks                                              *)
(***************************************************************************)
DefaultLimit == 10

unwrap_or(opt, default) == IF opt = None THEN default ELSE opt[1]

\* JSON values of the listing: a string, or null for a None.
JsonString(str) == Some(str)
JsonNull == None

\* doc.get_str(key): Some(string) for a string value, None for null.
get_str(d, key) == d[key]

\* render_flags without the is_empty test of line 134.
render_flags_keep_empty(d) ==
    IF d.ipc_specific_flags = None THEN JsonNull ELSE Some(d.ipc_specific_flags[1])

\* The match on doc.get_array("ipc_specific_flags"), lines 127-137.
render_flags(d) ==
    IF d.ipc_specific_flags = None
    THEN JsonNull
    ELSE IF d.ipc_specific_flags[1] = << >> THEN JsonNull
         ELSE Some(d.ipc_specific_flags[1])

\* The closure mapped over the documents, lines 119-147.
render_check(d) ==
    [address |-> d.address,
     subnet_id |-> get_str(d, "subnet_id"),
     timestamp |-> d.timestamp,
     risk_level |-> JsonString(unwrap_or(get_str(d, "risk_level"), "Unknown")),
     reason |-> JsonString(unwrap_or(get_str(d, "reason"), "")),
     ipc_specific_flags |-> render_flags(d)]

\* The bodies GET /recent-checks may answer with for query.limit = limitOpt.
get_recent_checks(s, limitOpt) ==
    { [k \in 1 .. Len(docs) |-> render_check(docs[k])] :
      docs \in DbClient_get_recent_checks(s, unwrap_or(limitOpt, DefaultLimit)) }

LimitInputs == { None, Some(0 - 1), Some(0), Some(1) }

(***************************************************************************)
(* routes: POST /check.  One action per stretch of check_wallet between    *)
(* two suspension points; a store call commits (or fails) in one step.     *)
(***************************************************************************)
NoCall == [op |-> "none", ok |-> TRUE, hit |-> 0, limit |-> None, body |-> << >>]

NoResponse == [status |-> 0, error |-> None, body |-> None]

BadRequest(msg) == [status |-> 400, error |-> Some(msg), body |-> None]

ErrorInternalServerError(msg) == [status |-> 500, error |-> Some(msg), body |-> None]

Ok(body) == [status |-> 200, error |-> None, body |-> Some(body)]

NoCalls == [insert |-> 0, predict |-> 0, update |-> 0]

Called(c, what) == [c EXCEPT ![what] = @ + 1]

\* The handler returns: its locals are dropped and the response is sent.
Return(r, resp) ==
    /\ response' = [response EXCEPT ![r] = resp]
    /\ pc' = [pc EXCEPT ![r] = "done"]
    /\ address' = [address EXCEPT ![r] = << >>]
    /\ subnet_id' = [subnet_id EXCEPT ![r] = None]
    /\ wallet_check' = [wallet_check EXCEPT ![r] = None]
    /\ ai_response' = [ai_response EXCEPT ![r] = None]

\* The request arrives: lines 22-27.  Requests are numbered in the order
\* they arrive.
Receive(r, a) ==
    /\ pc[r] = "idle"
    /\ \A q \in Reqs : q < r => pc[q] # "idle"
    /\ pc' = [pc EXCEPT ![r] = "received"]
    /\ address' = [address EXCEPT ![r] = a]
    /\ UNCHANGED << store, now, subnet_id, wallet_check, ai_response, response,
                    calls, created, target, dbVars, statsVars, ioVars >>

\* Validate without the check of lines 30-34.
Validate_NoCheck(r, t) ==
    /\ pc[r] = "received"
    /\ now' = t
    /\ subnet_id' = [subnet_id EXCEPT ![r] = extract_subnet_id(address[r])]
    /\ wallet_check' = [wallet_check EXCEPT ![r] =
           Some(WalletCheck_new(address[r], extract_subnet_id(address[r]), t))]
    /\ pc' = [pc EXCEPT ![r] = "validated"]
    /\ UNCHANGED << store, response, address, ai_response, calls, created, target,
                    dbVars, statsVars, ioVars >>

\* Lines 29-40: reject the address with 400, or extract the subnet id and
\* build the WalletCheck, whose timestamp is the reading t of Utc::now().
Validate(r, t) ==
    /\ pc[r] = "received"
    /\ IF ~ is_valid_ipc_address(address[r])
       THEN /\ t = now
            /\ UNCHANGED now
            /\ Return(r, BadRequest("Invalid IPC or Ethereum address format"))
       ELSE /\ now' = t
            /\ subnet_id' = [subnet_id EXCEPT ![r] = extract_subnet_id(address[r])]
            /\ wallet_check' = [wallet_check EXCEPT ![r] =
                   Some(WalletCheck_new(address[r], extract_subnet_id(address[r]), t))]
            /\ pc' = [pc EXCEPT ![r] = "validated"]
            /\ UNCHANGED << response, address, ai_response >>
    /\ UNCHANGED << store, calls, created, target, dbVars, statsVars, ioVars >>

\* Insert with the Err of insert_wallet_check logged and not returned.
Insert_IgnoreError(r) ==
    /\ pc[r] = "validated"
    /\ calls' = [calls EXCEPT ![r] = Called(@, "insert")]
    /\ pc' = [pc EXCEPT ![r] = "recorded"]
    /\ wallet_check' = [wallet_check EXCEPT ![r] = None]
    /\ \/ /\ store' = insert_wallet_check(store, wallet_check[r][1])
          /\ created' = [created EXCEPT ![r] = Len(store) + 1]
       \/ UNCHANGED << store, created >>
    /\ UNCHANGED << now, response, address, subnet_id, ai_response, target, dbVars,
                    statsVars, ioVars >>

\* Lines 42-46: insert_wallet_check takes the WalletCheck and commits, or
\* fails and the request ends 500.
Insert(r) ==
    /\ pc[r] = "validated"
    /\ calls' = [calls EXCEPT ![r] = Called(@, "insert")]
    /\ \/ /\ store' = insert_wallet_check(store, wallet_check[r][1])
          /\ pc' = [pc EXCEPT ![r] = "recorded"]
          /\ created' = [created EXCEPT ![r] = Len(store) + 1]
          /\ wallet_check' = [wallet_check EXCEPT ![r] = None]
          /\ UNCHANGED << response, address, subnet_id, ai_response >>
       \/ /\ Return(r, ErrorInternalServerError("Database error"))
          /\ UNCHANGED << store, created >>
    /\ UNCHANGED << now, target, dbVars, statsVars, ioVars >>

\* The body of the outbound POST /predict, lines 53-56.
AIPredictionRequest(r) == [address |-> address[r], subnet_id |-> subnet_id[r]]

\* The record at position i removed.
Without(s, i) == [k \in 1 .. Len(s) - 1 |-> IF k < i THEN s[k] ELSE s[k + 1]]

\* Predict with a compensating deletion of the record when the call fails.
Predict_Compensate(r) ==
    /\ pc[r] = "recorded"
    /\ calls' = [calls EXCEPT ![r] = Called(@, "predict")]
    /\ sent' = [sent EXCEPT ![r] = Some(AIPredictionRequest(r))]
    /\ \/ \E v \in Verdicts :
             /\ ai_response' = [ai_response EXCEPT ![r] = Some(v)]
             /\ pc' = [pc EXCEPT ![r] = "predicted"]
             /\ UNCHANGED << store, response, address, subnet_id, wallet_check >>
       \/ \E msg \in PredictFaults :
             /\ Return(r, ErrorInternalServerError(msg))
             /\ store' = Without(store, created[r])
    /\ UNCHANGED << now, created, target, dbVars, statsVars >>

\* Predict that tries again after a fault.
Predict_Retry(r) ==
    /\ pc[r] = "recorded"
    /\ calls[r].predict < 2
    /\ calls' = [calls EXCEPT ![r] = Called(@, "predict")]
    /\ sent' = [sent EXCEPT ![r] = Some(AIPredictionRequest(r))]
    /\ \/ \E v \in Verdicts :
             /\ ai_response' = [ai_response EXCEPT ![r] = Some(v)]
             /\ pc' = [pc EXCEPT ![r] = "predicted"]
             /\ UNCHANGED << response, address, subnet_id, wallet_check >>
       \/ UNCHANGED << pc, response, address, subnet_id, wallet_check, ai_response >>
    /\ UNCHANGED << store, now, created, target, dbVars, statsVars >>

\* Lines 48-82: the outbound POST /predict and its four outcomes.
Predict(r) ==
    /\ pc[r] = "recorded"
    /\ calls' = [calls EXCEPT ![r] = Called(@, "predict")]
    /\ sent' = [sent EXCEPT ![r] = Some(AIPredictionRequest(r))]
    /\ \/ \E v \in Verdicts :
             /\ ai_response' = [ai_response EXCEPT ![r] = Some(v)]
             /\ pc' = [pc EXCEPT ![r] = "predicted"]
             /\ UNCHANGED << response, address, subnet_id, wallet_check >>
       \/ \E msg \in PredictFaults : Return(r, ErrorInternalServerError(msg))
    /\ UNCHANGED << store, now, created, target, dbVars, statsVars >>

\* Update with the Err of update_wallet_check logged and not returned.
Update_IgnoreError(r) ==
    /\ pc[r] = "predicted"
    /\ calls' = [calls EXCEPT ![r] = Called(@, "update")]
    /\ pc' = [pc EXCEPT ![r] = "reconciled"]
    /\ \/ \E out \in update_wallet_check(store, address[r],
                          ai_response[r][1].risk_level, ai_response[r][1].reason,
                          ai_response[r][1].ipc_specific_flags) :
             /\ store' = out.store
             /\ target' = [target EXCEPT ![r] = out.hit]
       \/ UNCHANGED << store, target >>
    /\ UNCHANGED << now, response, address, subnet_id, wallet_check, ai_response,
                    created, dbVars, statsVars, ioVars >>

\* Update with a compensating deletion of the record when the update fails.
Update_Compensate(r) ==
    /\ pc[r] = "predicted"
    /\ calls' = [calls EXCEPT ![r] = Called(@, "update")]
    /\ \/ \E out \in update_wallet_check(store, address[r],
                          ai_response[r][1].risk_level, ai_response[r][1].reason,
                          ai_response[r][1].ipc_specific_flags) :
             /\ store' = out.store
             /\ target' = [target EXCEPT ![r] = out.hit]
             /\ pc' = [pc EXCEPT ![r] = "reconciled"]
             /\ UNCHANGED << response, address, subnet_id, wallet_check, ai_response >>
       \/ /\ Return(r, ErrorInternalServerError("Database error"))
          /\ store' = Without(store, created[r])
          /\ UNCHANGED target
    /\ UNCHANGED << now, created, dbVars, statsVars, ioVars >>

\* Update that waits while another request for the same address stands
\* between its insert and its update.
Update_Exclusive(r) ==
    /\ pc[r] = "predicted"
    /\ \A q \in Reqs \ {r} :
          pc[q] \in { "recorded", "predicted" } => address[q] # address[r]
    /\ calls' = [calls EXCEPT ![r] = Called(@, "update")]
    /\ \/ \E out \in update_wallet_check(store, address[r],
                          ai_response[r][1].risk_level, ai_response[r][1].reason,
                          ai_response[r][1].ipc_specific_flags) :
             /\ store' = out.store
             /\ target' = [target EXCEPT ![r] = out.hit]
             /\ pc' = [pc EXCEPT ![r] = "reconciled"]
             /\ UNCHANGED << response, address, subnet_id, wallet_check, ai_response >>
       \/ /\ Return(r, ErrorInternalServerError("Database error"))
          /\ UNCHANGED << store, target >>
    /\ UNCHANGED << now, created, dbVars, statsVars, ioVars >>

\* Lines 84-96: update_wallet_check commits, or fails and the request ends 500.
Update(r) ==
    /\ pc[r] = "predicted"
    /\ calls' = [calls EXCEPT ![r] = Called(@, "update")]
    /\ \/ \E out \in update_wallet_check(store, address[r],
                          ai_response[r][1].risk_level, ai_response[r][1].reason,
                          ai_response[r][1].ipc_specific_flags) :
             /\ store' = out.store
             /\ target' = [target EXCEPT ![r] = out.hit]
             /\ pc' = [pc EXCEPT ![r] = "reconciled"]
             /\ UNCHANGED << response, address, subnet_id, wallet_check, ai_response >>
       \/ /\ Return(r, ErrorInternalServerError("Database error"))
          /\ UNCHANGED << store, target >>
    /\ UNCHANGED << now, created, dbVars, statsVars, ioVars >>

\* WalletCheckResponse without the subnet identifier.
WalletCheckResponse_NoSubnet(r, t) ==
    [address |-> address[r],
     subnet_id |-> None,
     timestamp |-> t,
     risk_level |-> ai_response[r][1].risk_level,
     reason |-> ai_response[r][1].reason,
     ipc_specific_flags |-> ai_response[r][1].ipc_specific_flags]

\* The WalletCheckResponse of lines 99-106.
WalletCheckResponse(r, t) ==
    [address |-> address[r],
     subnet_id |-> subnet_id[r],
     timestamp |-> t,
     risk_level |-> ai_response[r][1].risk_level,
     reason |-> ai_response[r][1].reason,
     ipc_specific_flags |-> ai_response[r][1].ipc_specific_flags]

\* Lines 98-108: the handler resumes after the update and answers 200.  The
\* timestamp of the response is the clock as last read: nothing later depends
\* on the time that passed since.
Respond(r) ==
    /\ pc[r] = "reconciled"
    /\ Return(r, Ok(WalletCheckResponse(r, now)))
    /\ UNCHANGED << store, now, calls, created, target, dbVars, statsVars, ioVars >>

\* GET /recent-checks?limit=..., lines 111-157.
RecentChecks(limitOpt) ==
    /\ \E body \in get_recent_checks(store, limitOpt) :
          dbCall' = [NoCall EXCEPT !.op = "list", !.limit = limitOpt, !.body = body]
    /\ UNCHANGED << store, now, reqVars, lastCreated, lastPair, statsVars >>

(***************************************************************************)
(* ipc/client.rs and routes: GET /subnet-stats/{subnet_id}.  A character   *)
(* of the subnet identifier is written as its code, the value of           *)
(* c as u64; the identifier is the sequence of its characters.  The sum of *)
(* the codes stays far below 2^64 for any identifier a request can carry.  *)
(***************************************************************************)
MaxIdLen == 2      \* characters of a subnet identifier in the path

\* '0', 's', e-acute and the greatest char, U+10FFFF.
Chars == { 48, 115, 233, 1114111 }

\* The path segment {subnet_id} is never empty.
SubnetIds == UNION { [1 .. n -> Chars] : n \in 1 .. MaxIdLen }

RECURSIVE Sum(_)
\* subnet_id.chars().map(|c| c as u64).sum::<u64>()
Sum(id) == IF id = << >> THEN 0 ELSE id[1] + Sum(Tail(id))

hash_value(id) == Sum(id)

\* n as u8
as_u8(n) == n % 256

\* get_subnet_info with the risk score clamped and not reduced modulo 100.
get_subnet_info_clamp_only(id) ==
    [id |-> id,
     total_addresses |-> 1000 + (hash_value(id) % 9000),
     active_validators |-> 10 + (hash_value(id) % 90),
     cross_subnet_txs |-> 500 + (hash_value(id) % 1500),
     risk_score |-> Min(as_u8(hash_value(id)), 100)]

\* The SubnetInfo of IPCClient::get_subnet_info, which is always Ok.
get_subnet_info(id) ==
    [id |-> id,
     total_addresses |-> 1000 + (hash_value(id) % 9000),
     active_validators |-> 10 + (hash_value(id) % 90),
     cross_subnet_txs |-> 500 + (hash_value(id) % 1500),
     risk_score |-> Min(as_u8(hash_value(id) % 100), 100)]

\* The values of IPC_RPC_URL: not set, set to text that is no URL, set to a URL.
UrlOk == "http://localhost:8545"
EnvValues == { None, Some("not a url"), Some(UrlOk) }

\* IPCClient::new: env::var fails when the variable is not set, and
\* Provider::try_from fails when its value does not parse as a URL.
IPCClient_new(env) ==
    IF env = None THEN [ok |-> FALSE, err |-> "EnvVarError"]
    ELSE IF env[1] # UrlOk THEN [ok |-> FALSE, err |-> "ProviderError"]
    ELSE [ok |-> TRUE, err |-> ""]

\* The response of get_subnet_stats for the path id in a process whose
\* IPC_RPC_URL is env.
get_subnet_stats(id, env) ==
    IF IPCClient_new(env).ok
    THEN Ok(get_subnet_info(id))
    ELSE ErrorInternalServerError("Failed to initialize IPC client")

NoStats == [id |-> << >>, response |-> NoResponse]

\* GET /subnet-stats/{id}, lines 159-188.
SubnetStats(id) ==
    /\ statsPrev' = statsLast
    /\ statsLast' = [id |-> id, response |-> get_subnet_stats(id, ipc_rpc_url)]
    /\ UNCHANGED << store, now, reqVars, dbVars, ipc_rpc_url >>

\* The readings Utc::now() may give: the same millisecond as the last reading
\* or a later one.  Only the order of the timestamps is ever used, so a
\* later reading is the next one.
Readings == now .. Min(now + 1, MaxTime)

Init ==
    /\ store = << >>
    /\ now = 0
    /\ pc = [r \in Reqs |-> "idle"]
    /\ address = [r \in Reqs |-> << >>]
    /\ subnet_id = [r \in Reqs |-> None]
    /\ wallet_check = [r \in Reqs |-> None]
    /\ ai_response = [r \in Reqs |-> None]
    /\ response = [r \in Reqs |-> NoResponse]
    /\ calls = [r \in Reqs |-> NoCalls]
    /\ created = [r \in Reqs |-> 0]
    /\ target = [r \in Reqs |-> 0]
    /\ sent = [r \in Reqs |-> None]
    /\ dbCall = NoCall
    /\ lastCreated = 0
    /\ lastPair = None
    /\ ipc_rpc_url = None    \* read by get_subnet_stats only
    /\ statsLast = NoStats
    /\ statsPrev = NoStats

Next ==
    \/ \E r \in Reqs, a \in Addresses : Receive(r, a)
    \/ \E r \in Reqs, t \in Readings : Validate(r, t)
    \/ \E r \in Reqs : Insert(r)
    \/ \E r \in Reqs : Predict(r)
    \/ \E r \in Reqs : Update(r)
    \/ \E r \in Reqs : Respond(r)

Spec == Init /\ [][Next]_vars

\* Requests that do not overlap, with strictly increasing timestamps: a
\* request arrives when no other is running, and the clock reading of a valid
\* check is later than the timestamp of every stored record.
ReceiveAlone(r, a) ==
    /\ \A q \in Reqs \ {r} : pc[q] \in { "idle", "done" }
    /\ Receive(r, a)

ValidateLater(r, t) ==
    /\ address[r] \in ValidAddresses
          => \A i \in 1 .. Len(store) : store[i].timestamp < t
    /\ Validate(r, t)

NextSeq ==
    \/ \E r \in Reqs, a \in Addresses : ReceiveAlone(r, a)
    \/ \E r \in Reqs, t \in Readings : ValidateLater(r, t)
    \/ \E r \in Reqs : Insert(r)
    \/ \E r \in Reqs : Predict(r)
    \/ \E r \in Reqs : Update(r)
    \/ \E r \in Reqs : Respond(r)

SpecSeq == Init /\ [][NextSeq]_vars

\* The next step of request r once it has arrived.
StepOf(r) ==
    \/ \E t \in Readings : Validate(r, t)
    \/ Insert(r)
    \/ Predict(r)
    \/ Update(r)
    \/ Respond(r)

\* Every store operation and the outbound call return, and the runtime
\* resumes every handler that can run.
FairSpec == Spec /\ \A r \in Reqs : WF_vars(StepOf(r))

(***************************************************************************)
(* The store on its own: the three DbClient operations called directly,    *)
(* with any arguments the handlers can pass them.                          *)
(***************************************************************************)
Timestamps == 0 .. MaxTime

\* insert_wallet_check of a WalletCheck built for a valid address at some
\* time: it commits, or fails.
StoreInsert ==
    /\ Len(store) < MaxStore
    /\ \/ \E a \in ValidAddresses, t \in Timestamps :
             /\ store' = insert_wallet_check(store,
                             WalletCheck_new(a, extract_subnet_id(a), t))
             /\ dbCall' = [NoCall EXCEPT !.op = "insert", !.hit = Len(store) + 1]
             /\ lastCreated' = Len(store) + 1
             /\ lastPair' = None
       \/ /\ dbCall' = [NoCall EXCEPT !.op = "insert", !.ok = FALSE]
          /\ UNCHANGED << store, lastCreated, lastPair >>
    /\ UNCHANGED << now, reqVars, statsVars >>

\* update_wallet_check(a, v.risk_level, v.reason, v.ipc_specific_flags) for a
\* valid address a and a verdict v: it commits, or fails.
StoreUpdate ==
    /\ \/ \E a \in ValidAddresses, v \in StoreVerdicts :
          \E out \in update_wallet_check(store, a, v.risk_level, v.reason,
                                          v.ipc_specific_flags) :
             /\ store' = out.store
             /\ dbCall' = [NoCall EXCEPT !.op = "update", !.hit = out.hit]
             /\ lastPair' = IF lastCreated # 0 /\ store[lastCreated].address = a
                            THEN Some([pos |-> lastCreated, verdict |-> v])
                            ELSE None
             /\ lastCreated' = 0
       \/ /\ dbCall' = [NoCall EXCEPT !.op = "update", !.ok = FALSE]
          /\ UNCHANGED << store, lastCreated, lastPair >>
    /\ UNCHANGED << now, reqVars, statsVars >>

NextStore ==
    \/ StoreInsert
    \/ StoreUpdate
    \/ \E limitOpt \in LimitInputs : RecentChecks(limitOpt)

SpecStore == Init /\ [][NextStore]_vars

(***************************************************************************)
(* The subnet statistics on their own: GET /subnet-stats in a process      *)
(* started with any value of IPC_RPC_URL.                                  *)
(***************************************************************************)
InitStats ==
    /\ store = << >>
    /\ now = 0
    /\ pc = [r \in Reqs |-> "idle"]
    /\ address = [r \in Reqs |-> << >>]
    /\ subnet_id = [r \in Reqs |-> None]
    /\ wallet_check = [r \in Reqs |-> None]
    /\ ai_response = [r \in Reqs |-> None]
    /\ response = [r \in Reqs |-> NoResponse]
    /\ calls = [r \in Reqs |-> NoCalls]
    /\ created = [r \in Reqs |-> 0]
    /\ target = [r \in Reqs |-> 0]
    /\ sent = [r \in Reqs |-> None]
    /\ dbCall = NoCall
    /\ lastCreated = 0
    /\ lastPair = None
    /\ ipc_rpc_url \in EnvValues
    /\ statsLast = NoStats
    /\ statsPrev = NoStats

NextStats == \E id \in SubnetIds : SubnetStats(id)

SpecStats == InitStats /\ [][NextStats]_vars

(***************************************************************************)
(* Properties of the check pipeline (specification Spec).                  *)
(***************************************************************************)
Pending(d) ==
    /\ d.risk_level = None
    /\ d.reason = None
    /\ d.ipc_specific_flags = None

\* The record d carries the risk level and the reason of the verdict v.
Carries(d, v) ==
    /\ d.risk_level = Some(v.risk_level)
    /\ d.reason = Some(v.reason)

Positions == 1 .. Len(store)

\* The address request r was made for, known while r runs and from its record.
AddressOf(r) ==
    IF address[r] # << >> THEN address[r]
    ELSE IF created[r] \in Positions THEN store[created[r]].address
    ELSE << >>

PredictCalls(a) ==
    Cardinality({ r \in Reqs : calls[r].predict > 0 /\ AddressOf(r) = a })

InsertFailed(r) == calls[r].insert > 0 /\ created[r] = 0

PredictFailed(r) ==
    /\ pc[r] = "done"
    /\ response[r].error \in { Some(msg) : msg \in PredictFaults }

UpdateFailed(r) == pc[r] = "done" /\ calls[r].update > 0 /\ target[r] = 0

Alone(r) == \A q \in Reqs \ {r} : pc[q] = "idle"

\* C1: a request whose address the classifier rejects is answered 400 and
\* makes no insert, no outbound prediction call and no update, so the store
\* is as it was: only valid addresses get past the validation, a request
\* answered 400 has issued no call and owns no record, and a request that
\* ended without issuing any call was answered 400.
C1_RejectedAddressHasNoEffect ==
    /\ \A r \in Reqs :
          /\ pc[r] \notin { "idle", "received", "done" }
                => address[r] \in ValidAddresses
          /\ response[r].status = 400
                => /\ pc[r] = "done"
                   /\ calls[r] = NoCalls
                   /\ created[r] = 0
                   /\ target[r] = 0
                   /\ response[r].body = None
          /\ (pc[r] = "done" /\ calls[r] = NoCalls) => response[r].status = 400
    /\ \A i \in Positions : store[i].address \in ValidAddresses

\* C1 witness: a request was answered 400 while another one's record is stored.
C1_Witness ==
    \E r \in Reqs : response[r].status = 400 /\ store # << >>

\* C2: a request whose insert_wallet_check fails is answered 500 at once and
\* makes no outbound prediction call and no update call.
C2_CreateFailureStopsPipeline ==
    \A r \in Reqs :
        InsertFailed(r)
            => /\ pc[r] = "done"
               /\ response[r].status = 500
               /\ response[r].body = None
               /\ calls[r] = [insert |-> 1, predict |-> 0, update |-> 0]
               /\ target[r] = 0

\* C2 witness: one request failed at the insert while another went on to its
\* prediction call.
C2_Witness ==
    \E r, q \in Reqs :
        /\ InsertFailed(r)
        /\ response[r].status = 500
        /\ calls[q].predict = 1

\* C3: a request makes its outbound prediction call only after its own insert
\* succeeded, so for every address the prediction calls attempted are at most
\* the records stored.
C3_PredictOnlyAfterCreate ==
    /\ \A r \in Reqs :
          calls[r].predict > 0
              => /\ calls[r].predict = 1
                 /\ created[r] \in Positions
                 /\ address[r] \in { << >>, store[created[r]].address }
    /\ \A a \in ValidAddresses :
          PredictCalls(a) <= Cardinality(Filter(store, a))

\* C3 witness: two prediction calls were made for one address.
C3_Witness ==
    \E a \in ValidAddresses : PredictCalls(a) = 2

\* C4 as stated: after a failed prediction the request is answered 500, made
\* no update, and the record it created is pending; a request that ran alone
\* leaves exactly one record, pending.
C4_Original ==
    \A r \in Reqs :
        PredictFailed(r)
            => /\ response[r].status = 500
               /\ calls[r].update = 0
               /\ target[r] = 0
               /\ created[r] \in Positions
               /\ Pending(store[created[r]])
               /\ Alone(r) => Len(store) = 1

\* C4 as amended: after a failed prediction (any of the three faults) the
\* request is answered 500 and made no update and no deletion; the record it
\* created is still stored and is pending unless the update of another
\* request hit it; a request that ran alone leaves exactly one record, and
\* that record is pending.
C4_PredictFailureLeavesRecord ==
    \A r \in Reqs :
        PredictFailed(r)
            => /\ response[r].status = 500
               /\ response[r].body = None
               /\ calls[r] = [insert |-> 1, predict |-> 1, update |-> 0]
               /\ target[r] = 0
               /\ created[r] \in Positions
               /\ \/ Pending(store[created[r]])
                  \/ \E q \in Reqs \ {r} : target[q] = created[r]
               /\ Alone(r) => (Len(store) = 1 /\ Pending(store[1]))

\* C4 witness: a request that ran alone failed at the prediction and its
\* record is pending.
C4_Witness ==
    \E r \in Reqs :
        /\ PredictFailed(r)
        /\ Alone(r)
        /\ Pending(store[created[r]])

\* C5 as stated: a failed update is answered 500 without a verdict, and at
\* the moment a request is answered 200 with a verdict, some stored record of
\* its address carries the risk level and reason of that verdict.
C5_Original ==
    [][ \A r \in Reqs :
          /\ UpdateFailed(r)' => (response'[r].status = 500 /\ response'[r].body = None)
          /\ (pc[r] = "reconciled" /\ response'[r].status = 200)
                => \E i \in 1 .. Len(store') :
                      /\ store'[i].address = response'[r].body[1].address
                      /\ Carries(store'[i], response'[r].body[1]) ]_vars

\* C5 as amended: a failed update is answered 500 without a verdict; a
\* request answered 200 with a verdict has, before answering, written the
\* risk level and reason of that verdict into a stored record of its address,
\* and that record still carries them unless the update of another request
\* hit the same record.
C5_VerdictRecordedBeforeResponse ==
    \A r \in Reqs :
        /\ UpdateFailed(r) => (response[r].status = 500 /\ response[r].body = None)
        /\ response[r].status = 200
              => /\ target[r] \in Positions
                 /\ store[target[r]].address = response[r].body[1].address
                 /\ \/ Carries(store[target[r]], response[r].body[1])
                    \/ \E q \in Reqs \ {r} : target[q] = target[r]

\* C5 witness: one request was answered 200 and the record its update hit
\* carries its verdict, while another request failed at the update.
C5_Witness ==
    \E r, q \in Reqs :
        /\ response[r].status = 200
        /\ Carries(store[target[r]], response[r].body[1])
        /\ UpdateFailed(q)
        /\ response[q].status = 500

(***************************************************************************)
(* Properties of the store operations (specification SpecStore).           *)
(***************************************************************************)
VerdictArgs == { << a, v >> : a \in ValidAddresses, v \in StoreVerdicts }

UpdateOutcomes(a, v) ==
    update_wallet_check(store, a, v.risk_level, v.reason, v.ipc_specific_flags)

\* C6: when the address has a record, update_wallet_check updates exactly one
\* record, one of the greatest timestamp among the records of the address:
\* it gets the risk level and the reason (and the flags, when given); every
\* other record, of this or another address, is unchanged.
C6_UpdateHitsMostRecentOnly ==
    \A av \in VerdictArgs :
        LET a == av[1]
            v == av[2]
        IN  Filter(store, a) # {}
            => /\ UpdateOutcomes(a, v) # {}
               /\ \A out \in UpdateOutcomes(a, v) :
                     /\ out.hit \in Filter(store, a)
                     /\ \A j \in Filter(store, a) :
                           store[j].timestamp <= store[out.hit].timestamp
                     /\ Len(out.store) = Len(store)
                     /\ \A j \in Positions \ {out.hit} : out.store[j] = store[j]
                     /\ out.store[out.hit] =
                           [store[out.hit] EXCEPT
                              !.risk_level = Some(v.risk_level),
                              !.reason = Some(v.reason),
                              !.ipc_specific_flags =
                                  IF v.ipc_specific_flags = None
                                  THEN @ ELSE v.ipc_specific_flags]

\* C6 witness: an update hit a record while an older record of the same
\* address stays pending.
C6_Witness ==
    /\ dbCall.op = "update"
    /\ dbCall.ok
    /\ dbCall.hit \in Positions
    /\ ~ Pending(store[dbCall.hit])
    /\ \E j \in Positions :
          /\ store[j].address = store[dbCall.hit].address
          /\ store[j].timestamp < store[dbCall.hit].timestamp
          /\ Pending(store[j])

\* C7: update_wallet_check for an address without any record returns Ok and
\* leaves the store as it is: no record is created or modified.
C7_UpdateWithoutMatchIsNoOp ==
    \A av \in VerdictArgs :
        Filter(store, av[1]) = {}
            => UpdateOutcomes(av[1], av[2]) = { [hit |-> 0, store |-> store] }

\* C7 witness: an update returned Ok without a match, in a store that holds
\* a pending record of another address.
C7_Witness ==
    /\ dbCall.op = "update"
    /\ dbCall.ok
    /\ dbCall.hit = 0
    /\ Len(store) = 1
    /\ Pending(store[1])

\* What the listing shows of the record at position pos once it holds v.
Reflects(pos, v) ==
    [address |-> store[pos].address,
     subnet_id |-> store[pos].subnet_id,
     timestamp |-> store[pos].timestamp,
     risk_level |-> Some(v.risk_level),
     reason |-> Some(v.reason),
     ipc_specific_flags |->
         IF v.ipc_specific_flags \in { None, Some(<< >>) }
         THEN None ELSE v.ipc_specific_flags]

StrictlyNewest(pos) ==
    \A j \in Positions \ {pos} : store[j].timestamp < store[pos].timestamp

ListedOne == dbCall.op = "list" /\ dbCall.limit = Some(1)

\* C8 as stated: after an insert and then an update for the same address,
\* with no other write in between, the listing of limit 1 is that record
\* with the risk level, reason and flags of the update, the flags absent for
\* an empty list.
C8_Original ==
    (ListedOne /\ lastPair # None)
        => dbCall.body = << Reflects(lastPair[1].pos, lastPair[1].verdict) >>

\* C8 as amended: the same, provided the inserted record is the most recent
\* of the store: its timestamp is greater than that of every other record.
C8_CreateUpdateListed ==
    (ListedOne /\ lastPair # None /\ StrictlyNewest(lastPair[1].pos))
        => dbCall.body = << Reflects(lastPair[1].pos, lastPair[1].verdict) >>

\* C8 witness: the listing of limit 1 after an insert and an update with an
\* empty flag list, with an older record in the store.
C8_Witness ==
    /\ ListedOne
    /\ lastPair # None
    /\ StrictlyNewest(lastPair[1].pos)
    /\ lastPair[1].verdict.ipc_specific_flags = Some(<< >>)
    /\ Len(store) = 2

\* The listing entry of a record with every unset optional field absent.
RenderedAbsent(d) ==
    [address |-> d.address,
     subnet_id |-> d.subnet_id,
     timestamp |-> d.timestamp,
     risk_level |-> d.risk_level,
     reason |-> d.reason,
     ipc_specific_flags |->
         IF d.ipc_specific_flags = Some(<< >>) THEN None ELSE d.ipc_specific_flags]

\* C9: every entry of a listing shows a stored record with its unset optional
\* fields (subnet id, risk level, reason, flags) absent, never as a sentinel
\* string: a pending record is listed with risk level and reason absent.
C9_UnsetFieldsAbsent ==
    dbCall.op = "list"
        => \A k \in DOMAIN dbCall.body :
              \E i \in Positions : dbCall.body[k] = RenderedAbsent(store[i])

\* C10: a listing is in descending order of timestamp, has at most limit
\* entries (10 when no limit is given) and they are the first of that order.
C10_ListingOrderedAndTruncated ==
    dbCall.op = "list"
        => LET limit == unwrap_or(dbCall.limit, DefaultLimit)
               body == dbCall.body
           IN  /\ Len(body) <= limit
               /\ Len(body) = Min(limit, Len(store))
               /\ \A k \in 1 .. Len(body) - 1 :
                     body[k].timestamp >= body[k + 1].timestamp
               /\ \E ord \in SortedOrders(store, Positions) :
                     \A k \in DOMAIN body :
                         body[k].timestamp = store[ord[k]].timestamp

(***************************************************************************)
(* Properties of the subnet statistics (specification SpecStats).          *)
(***************************************************************************)
Answered200(call) == call.id # << >> /\ call.response.status = 200

StatsOf(call) == call.response.body[1]

\* C11: the statistics answered for an identifier depend on the identifier
\* only (two calls in a row for one identifier answer the same), and with
\* seed the sum of its character codes they are 1000 + seed mod 9000 in
\* [1000, 10000), 10 + seed mod 90 in [10, 100), 500 + seed mod 1500 in
\* [500, 2000) and seed mod 100 in [0, 100]; the clamp to 100 changes nothing.
C11_StatsDeterministicAndBounded ==
    /\ Answered200(statsLast) =>
          LET st == StatsOf(statsLast)
              seed == Sum(statsLast.id)
          IN  /\ st.id = statsLast.id
              /\ st.total_addresses = 1000 + (seed % 9000)
              /\ st.total_addresses >= 1000 /\ st.total_addresses < 10000
              /\ st.active_validators = 10 + (seed % 90)
              /\ st.active_validators >= 10 /\ st.active_validators < 100
              /\ st.cross_subnet_txs = 500 + (seed % 1500)
              /\ st.cross_subnet_txs >= 500 /\ st.cross_subnet_txs < 2000
              /\ st.risk_score = seed % 100
              /\ st.risk_score >= 0 /\ st.risk_score <= 100
              /\ as_u8(seed % 100) <= 100
    /\ (Answered200(statsLast) /\ Answered200(statsPrev)
           /\ statsLast.id = statsPrev.id)
          => StatsOf(statsLast) = StatsOf(statsPrev)

\* C11 witness: the same identifier was asked twice in a row, and its seed
\* is beyond every modulus.
C11_Witness ==
    /\ Answered200(statsLast)
    /\ Answered200(statsPrev)
    /\ statsLast.id = statsPrev.id
    /\ Sum(statsLast.id) > 9000

\* C12: GET /subnet-stats never fails: whatever the identifier and the
\* configuration of the process, the answer is 200 with the statistics.
C12_StatsNeverFail ==
    statsLast.id # << >>
        => /\ statsLast.response.status = 200
           /\ statsLast.response.body = Some(get_subnet_info(statsLast.id))

(***************************************************************************)
(* Further properties of the check pipeline (specification Spec).          *)
(***************************************************************************)
Answered(r, status) == pc[r] = "done" /\ response[r].status = status

BodyOf(r) == response[r].body[1]

\* C13: a request answered 200 returns the address it was made for, the
\* subnet identifier the classifier gave for it, which is the one stored in
\* its record and posted to the prediction service (none for a plain
\* address), and the risk level, reason and flags the prediction service
\* returned to it, the flags absent when the service returned none: the
\* parsed answer of the service is kept as it is until the response is
\* built from it.
C13_ResponseEchoes ==
    /\ [] \A r \in Reqs :
            Answered(r, 200)
                => /\ created[r] \in Positions
                   /\ sent[r] # None
                   /\ BodyOf(r).address = sent[r][1].address
                   /\ BodyOf(r).address = store[created[r]].address
                   /\ BodyOf(r).subnet_id = extract_subnet_id(BodyOf(r).address)
                   /\ BodyOf(r).subnet_id = sent[r][1].subnet_id
                   /\ BodyOf(r).subnet_id = store[created[r]].subnet_id
                   /\ is_eth_address(BodyOf(r).address) => BodyOf(r).subnet_id = None
    /\ [][ \A r \in Reqs :
             /\ (pc[r] = "received" /\ pc'[r] = "validated")
                   => address'[r] = address[r]
             /\ (pc[r] \in { "validated", "recorded", "predicted" } /\ pc'[r] # "done")
                   => (address'[r] = address[r] /\ subnet_id'[r] = subnet_id[r])
             /\ (pc[r] = "recorded" /\ pc'[r] = "predicted")
                   => ai_response'[r] \in { Some(v) : v \in Verdicts }
             /\ (pc[r] = "predicted" /\ pc'[r] # "done")
                   => ai_response'[r] = ai_response[r]
             /\ (pc[r] = "reconciled" /\ pc'[r] = "done")
                   => /\ response'[r].status = 200
                      /\ response'[r].body[1].address = address[r]
                      /\ response'[r].body[1].subnet_id = subnet_id[r]
                      /\ response'[r].body[1].risk_level = ai_response[r][1].risk_level
                      /\ response'[r].body[1].reason = ai_response[r][1].reason
                      /\ response'[r].body[1].ipc_specific_flags
                            = ai_response[r][1].ipc_specific_flags
                      /\ ai_response[r][1].ipc_specific_flags = None
                            => response'[r].body[1].ipc_specific_flags = None
       ]_vars

\* C13 witness: one request for a subnet address was answered 200 with flags
\* and one for a plain address was answered 200 without flags.
C13_Witness ==
    \E r, q \in Reqs :
        /\ Answered(r, 200)
        /\ BodyOf(r).subnet_id # None
        /\ BodyOf(r).ipc_specific_flags # None
        /\ Answered(q, 200)
        /\ BodyOf(q).subnet_id = None
        /\ BodyOf(q).ipc_specific_flags = None

\* Request a's update hit the record of request b, created later for the
\* same address, and both were answered 200.
Raced(a, b) ==
    /\ a # b
    /\ Answered(a, 200)
    /\ Answered(b, 200)
    /\ created[a] \in Positions
    /\ created[b] \in Positions
    /\ created[a] < created[b]
    /\ store[created[a]].address = store[created[b]].address
    /\ store[created[a]].timestamp < store[created[b]].timestamp
    /\ target[a] = created[b]

\* C14: two concurrent checks of one address can race.  Whenever the update
\* of request a hit the later record of request b and both were answered 200,
\* the record of a is still pending unless a third request hit it, and the
\* record of b carries the risk level and reason of the verdict of a or of b
\* unless a third request hit it.  C14_Witness is the interleaving itself.
C14_RaceLeavesEarlierPending ==
    \A a, b \in Reqs :
        Raced(a, b)
            => /\ (\A q \in Reqs \ {a, b} : target[q] # created[a])
                     => Pending(store[created[a]])
               /\ (\A q \in Reqs \ {a, b} : target[q] # created[b])
                     => \/ Carries(store[created[b]], BodyOf(a))
                        \/ Carries(store[created[b]], BodyOf(b))

\* C14 witness: the race happened: both requests were answered 200, the
\* earlier record is pending and the later one is resolved.
C14_Witness ==
    \E a, b \in Reqs :
        /\ Raced(a, b)
        /\ Pending(store[created[a]])
        /\ target[b] = created[b]
        /\ Carries(store[created[b]], BodyOf(b))

\* C15: no step changes the address, the subnet identifier or the timestamp
\* of a stored record: every record keeps its position and these three
\* fields as insert_wallet_check stored them; only risk level, reason and
\* flags change afterwards.
C15_CreationFieldsImmutable ==
    [][ /\ Len(store') >= Len(store)
        /\ \A i \in 1 .. Len(store) :
              /\ store'[i].address = store[i].address
              /\ store'[i].subnet_id = store[i].subnet_id
              /\ store'[i].timestamp = store[i].timestamp
        /\ \A r \in Reqs :
              (pc[r] = "validated" /\ pc'[r] = "recorded")
                 => /\ store'[Len(store')].address = wallet_check[r][1].address
                    /\ store'[Len(store')].subnet_id = wallet_check[r][1].subnet_id
                    /\ store'[Len(store')].timestamp = wallet_check[r][1].timestamp
      ]_vars

\* C15 witness: a record of a subnet address created at a later reading of
\* the clock has been resolved.
C15_Witness ==
    \E i \in Positions :
        /\ ~ Pending(store[i])
        /\ store[i].subnet_id # None
        /\ store[i].timestamp > 0

\* The steps of one request, by the position it leaves and the one it enters.
StepOrder ==
    { << "idle", "received" >>, << "received", "validated" >>,
      << "validated", "recorded" >>, << "recorded", "predicted" >>,
      << "predicted", "reconciled" >>, << "reconciled", "done" >> }

\* The failure exits: a position and the status answered when leaving it.
FailureExits ==
    { << "received", 400 >>, << "validated", 500 >>, << "recorded", 500 >>,
      << "predicted", 500 >> }

\* The calls a request has made when it stands at a position.
CallsAt(p) ==
    [insert |-> IF p \in { "recorded", "predicted", "reconciled" } THEN 1 ELSE 0,
     predict |-> IF p \in { "predicted", "reconciled" } THEN 1 ELSE 0,
     update |-> IF p = "reconciled" THEN 1 ELSE 0]

\* C16: a request takes its steps in the order Received, Validated, Recorded,
\* Predicted, Reconciled, Responded, none skipped or repeated; a failure ends
\* it with an error response and nothing of it runs afterwards.  It makes at
\* most one insert, one prediction call and one update, and the update only
\* after the prediction succeeded.
C16_StepsInOrder ==
    /\ [] \A r \in Reqs :
            /\ calls[r].insert <= 1 /\ calls[r].predict <= 1 /\ calls[r].update <= 1
            /\ pc[r] # "done" => calls[r] = CallsAt(pc[r])
            /\ calls[r].predict > 0 => (calls[r].insert = 1 /\ created[r] # 0)
            /\ calls[r].update > 0 => calls[r].predict = 1
            /\ pc[r] \in { "predicted", "reconciled" } => ai_response[r] # None
            /\ Answered(r, 200) => calls[r] = CallsAt("reconciled")
    /\ [][ \A r \in Reqs :
             /\ pc[r] = "done"
                   => /\ pc'[r] = "done"
                      /\ calls'[r] = calls[r]
                      /\ response'[r] = response[r]
             /\ calls'[r].update > calls[r].update
                   => (pc[r] = "predicted" /\ ai_response[r] # None)
             /\ pc'[r] # pc[r]
                   => \/ /\ << pc[r], pc'[r] >> \in StepOrder
                         /\ pc'[r] = "done" => response'[r].status = 200
                      \/ /\ pc'[r] = "done"
                         /\ << pc[r], response'[r].status >> \in FailureExits
                         /\ response'[r].body = None
                         /\ response'[r].error # None
                         /\ calls'[r].predict = calls[r].predict
                               + (IF pc[r] = "recorded" THEN 1 ELSE 0)
       ]_vars

\* C16 witness: one request went through every step and was answered 200,
\* another failed at its prediction call and made no update.
C16_Witness ==
    \E r, q \in Reqs :
        /\ Answered(r, 200)
        /\ calls[r] = [insert |-> 1, predict |-> 1, update |-> 1]
        /\ Answered(q, 500)
        /\ calls[q] = [insert |-> 1, predict |-> 1, update |-> 0]

Running(r) == pc[r] \notin { "idle", "done" }

\* C17: when every store operation and the outbound call return and the
\* handlers are scheduled fairly, every request that arrived gets a response,
\* 200, 400 or 500, and only one; its next step can always be taken,
\* whatever the other requests do.
C17_EveryRequestAnswered ==
    /\ \A r \in Reqs :
          (pc[r] = "received")
              ~> (pc[r] = "done" /\ response[r].status \in { 200, 400, 500 })
    /\ [] \A r \in Reqs :
            /\ Running(r) => ENABLED StepOf(r)
            /\ pc[r] # "done" => response[r] = NoResponse
    /\ [][ \A r \in Reqs : pc[r] = "done" => response'[r] = response[r] ]_vars

\* C17 witness: every request was answered, and two of them overlapped: the
\* update of one hit the record of the other.
C17_Witness ==
    /\ \A r \in Reqs : pc[r] = "done"
    /\ \E r, q \in Reqs :
          /\ r # q
          /\ Answered(r, 200)
          /\ Answered(q, 200)
          /\ target[r] = created[q]

\* The insert_wallet_check calls that have succeeded so far.
Created == { r \in Reqs : created[r] # 0 }

\* C18: no step deletes a record: the collection only grows, every record
\* stays where it is, and the number of records is the number of inserts
\* that succeeded, whether or not their requests failed afterwards.
C18_RecordsNeverDeleted ==
    /\ [] /\ Len(store) = Cardinality(Created)
          /\ \A r \in Created : created[r] \in Positions
          /\ \A r, q \in Created : r # q => created[r] # created[q]
    /\ [][ /\ Len(store') \in { Len(store), Len(store) + 1 }
           /\ \A i \in 1 .. Len(store) :
                 /\ store'[i].address = store[i].address
                 /\ store'[i].timestamp = store[i].timestamp
           /\ \A r \in Created : created'[r] = created[r] ]_vars

\* C18 witness: a request failed at its update and another at its
\* prediction call, and both their records are stored.
C18_Witness ==
    \E r, q \in Reqs :
        /\ UpdateFailed(r)
        /\ PredictFailed(q)
        /\ created[r] \in Positions
        /\ created[q] \in Positions
        /\ Len(store) >= 2

\* C19: every resolved record carries the risk level, the reason and the
\* flags of one verdict of the prediction service.
C19_RecordHoldsOneVerdict ==
    \A i \in Positions :
        ~ Pending(store[i])
            => \E v \in Verdicts :
                  /\ Carries(store[i], v)
                  /\ store[i].ipc_specific_flags = v.ipc_specific_flags

\* C20: when the requests do not overlap and the timestamps increase
\* strictly, the update of a request hits the record that request created:
\* the record of a request answered 200 is resolved with its verdict, and a
\* pending record is the record of a request answered 500, or of the one
\* request still running.
C20_SequentialChecksHitOwnRecord ==
    /\ \A r \in Reqs :
          /\ (calls[r].update > 0 /\ ~ UpdateFailed(r)) => target[r] = created[r]
          /\ Answered(r, 200)
                => /\ created[r] \in Positions
                   /\ Carries(store[created[r]], BodyOf(r))
                   /\ store[created[r]].ipc_specific_flags
                         = BodyOf(r).ipc_specific_flags
    /\ \A i \in Positions :
          Pending(store[i])
              => \E r \in Reqs :
                    /\ created[r] = i
                    /\ Answered(r, 500) \/ Running(r)

\* C20 witness: two checks of one address, one after the other, were both
\* answered 200.
C20_Witness ==
    \E r, q \in Reqs :
        /\ r # q
        /\ Answered(r, 200)
        /\ Answered(q, 200)
        /\ BodyOf(r).address = BodyOf(q).address
        /\ created[r] < created[q]
        /\ target[q] = created[q]

====
